---- MODULE Spec2Model ----
(***************************************************************************)
(* Model of h5_image_tools (src/extractor.py): H5ImageExtractor bound to   *)
(* one HDF5 file.  The file is a tree of Group / Array / other nodes; the  *)
(* extractor scans it (counts arrays of rank >= 2), extracts up to n of    *)
(* them in depth-first order and assembles the result with numpy.          *)
(*                                                                         *)
(* The two recursive walks are modelled with an explicit call stack: one   *)
(* frame per active _recursive_*_arrays call, one step per iteration of    *)
(* its for loop.  The step that ends the outermost call also leaves the    *)
(* `with tables.open_file(...)` block and finishes the public method.      *)
(***************************************************************************)
EXTENDS Integers, Sequences, FiniteSets

\* Largest number of nodes below the root of the file.
MaxNodes == 3

VARIABLES
    tree,          \* children of f.root: the content of the file (never written)
    total_images,  \* self.total_images
    pc,            \* "idle" (control with the caller) | "scan" | "extract"
    call,          \* the public call in progress, or the last one made
    stack,         \* frames of the recursive walk in progress
    count,         \* running count of _recursive_count_arrays
    images,        \* the list filled by _recursive_extract_arrays
    max_count,     \* max_count of the extraction in progress
    open,          \* file handles currently open
    opens,         \* tables.open_file calls made by the current/last call
    attempts,      \* child.read() calls made by the current/last call
    warnings,      \* warnings.warn calls of the current/last call
    ret,           \* value returned by the last call
    err,           \* exception that left the last call ("none" if it returned)
    full           \* list extracted by the last extraction of all total_images

vars == <<tree, total_images, pc, call, stack, count, images, max_count,
          open, opens, attempts, warnings, ret, err, full>>

----------------------------------------------------------------------------
(* The file: PyTables nodes *)

ArrayNode(shape, readable) ==
    [kind |-> "Array", shape |-> shape, readable |-> readable, children |-> <<>>]

GroupNode(children) ==
    [kind |-> "Group", shape |-> <<>>, readable |-> TRUE, children |-> children]

\* A leaf that is neither tables.Array nor tables.Group (Table, VLArray, ...).
OtherNode ==
    [kind |-> "Other", shape |-> <<>>, readable |-> TRUE, children |-> <<>>]

\* A child whose loading by node._f_iter_nodes() raises (damaged object header).
CorruptNode ==
    [kind |-> "Corrupt", shape |-> <<>>, readable |-> FALSE, children |-> <<>>]

\* Shapes of the arrays of the modelled files: rank 0, rank 1 and three rank-2
\* shapes, two of which share their first dimension.
Shapes == {<<>>, <<5>>, <<4, 4>>, <<4, 5>>, <<5, 4>>}

\* Arrays whose read() raises are modelled for one shape.
Leaves ==
    {ArrayNode(s, TRUE) : s \in Shapes}
        \cup {ArrayNode(<<4, 4>>, FALSE), OtherNode, CorruptNode}

RECURSIVE Forests(_)
\* All sequences of sibling nodes with n nodes in total (descendants included).
Forests(n) ==
    IF n = 0 THEN {<<>>}
    ELSE {<<l>> \o rest : l \in Leaves, rest \in Forests(n - 1)}
         \cup UNION {
                {<<GroupNode(sub)>> \o rest :
                    sub \in Forests(k), rest \in Forests(n - 1 - k)}
                : k \in 0 .. (n - 1)}

Files == UNION {Forests(n) : n \in 0 .. MaxNodes}

----------------------------------------------------------------------------
(* Values *)

NoCall == [op |-> "none", given |-> FALSE, n |-> 0]
ScanCallRec == [op |-> "scan", given |-> FALSE, n |-> 0]
SummaryCallRec == [op |-> "summary", given |-> FALSE, n |-> 0]
ExtractCallRec(given, n) == [op |-> "extract", given |-> given, n |-> n]

NoValue == [kind |-> "none", int |-> 0, shape |-> <<>>, elems |-> <<>>]
IntValue(i) == [kind |-> "int", int |-> i, shape |-> <<>>, elems |-> <<>>]
\* The dict of get_summary; file_path is constant and left out.
SummaryValue(t) == [kind |-> "dict", int |-> t, shape |-> <<>>, elems |-> <<>>]
\* numpy.ndarray: kind "ndarray" has a numeric dtype, kind "object" dtype=object.
ArrayValue(kind, shape, elems) ==
    [kind |-> kind, int |-> 0, shape |-> shape, elems |-> elems]

Warning(kind, path) == [kind |-> kind, path |-> path]

NoFull == [set |-> FALSE, elems |-> <<>>]

Frame(kids, path) == [kids |-> kids, i |-> 1, path |-> path]

Top(s) == s[Len(s)]
Pop(s) == SubSeq(s, 1, Len(s) - 1)
Advance(s) == [s EXCEPT ![Len(s)].i = @ + 1]

----------------------------------------------------------------------------
(* The code's predicates and conversions *)

IsArray(child) == child.kind = "Array"

\* Mutant of IsGroup: sub-groups are never entered.
IsGroupNever(child) == FALSE

IsGroup(child) == child.kind = "Group"

\* Mutant of IsImage: rank-1 arrays qualify too.
IsImageRankOne(child) == Len(child.shape) >= 1

\* len(child.shape) >= 2
IsImage(child) == Len(child.shape) >= 2

\* Mutant of ReachedMax: the walk stops one array too late.
ReachedMaxLate(imgs, maxc) == Len(imgs) > maxc

\* max_count is not None and len(images) >= max_count
ReachedMax(imgs, maxc) == Len(imgs) >= maxc

\* child.read(): the array's buffer, identified by the node's path in the file.
ReadArray(child, path) == [shape |-> child.shape, data |-> path]

\* Mutant of TryRead: a failed read appends an empty placeholder.
TryReadPlaceholder(imgs, child, path) ==
    IF child.readable
    THEN Append(imgs, [shape |-> child.shape, data |-> path])
    ELSE Append(imgs, [shape |-> <<>>, data |-> path])

\* try: images.append(child.read()) / except Exception: warnings.warn(...):
\* a read that raises leaves the list as it was.
TryRead(imgs, child, path) ==
    IF child.readable THEN Append(imgs, ReadArray(child, path)) ELSE imgs

\* Mutant of OnScanError: the cached count survives a failed scan.
OnScanErrorKeep(total) == total

\* The except branch of scan_file: self.total_images = 0, whatever it was.
OnScanError(total) == 0

\* Mutant of WithExit: the handle is closed on the normal exit only.
WithExitLeak(handles, raised) == IF raised THEN handles ELSE handles - 1

\* Leaving the `with tables.open_file(...) as f` block, normally or by an
\* exception: the handle is closed.
WithExit(handles, raised) == handles - 1

\* Mutant of ArgCheck: a count of 0 passes the positivity check.
ArgCheckZeroPasses(total, given, n) ==
    LET n_images == IF given THEN n ELSE total IN
    IF total = 0 THEN "InvalidState"
    ELSE IF n_images > total THEN "OutOfRange"
    ELSE IF n_images < 0 THEN "InvalidArgument"
    ELSE "ok"

\* Mutant of ArgCheck: the check of the cached total is missing.
ArgCheckNoState(total, given, n) ==
    LET n_images == IF given THEN n ELSE total IN
    IF n_images > total THEN "OutOfRange"
    ELSE IF n_images <= 0 THEN "InvalidArgument"
    ELSE "ok"

\* The checks at the head of extract_images, in the code's order.
ArgCheck(total, given, n) ==
    LET n_images == IF given THEN n ELSE total IN
    IF total = 0 THEN "InvalidState"
    ELSE IF n_images > total THEN "OutOfRange"
    ELSE IF n_images <= 0 THEN "InvalidArgument"
    ELSE "ok"

\* n_images after `if n_images is None: n_images = self.total_images`
Resolve(total, given, n) == IF given THEN n ELSE total

SameShapes(imgs) ==
    \A i, j \in 1 .. Len(imgs) : imgs[i].shape = imgs[j].shape

\* Number of leading dimensions on which all arrays of imgs agree.
CommonDims(imgs) ==
    LET ok(d) == \A i, j \in 1 .. Len(imgs) :
                    /\ Len(imgs[i].shape) >= d
                    /\ Len(imgs[j].shape) >= d
                    /\ SubSeq(imgs[i].shape, 1, d) = SubSeq(imgs[j].shape, 1, d)
        maxd == IF imgs = <<>> THEN 0 ELSE Len(imgs[1].shape)
    IN  CHOOSE d \in 0 .. maxd :
            ok(d) /\ \A e \in (d + 1) .. maxd : ~ok(e)

\* np.array(images): stacks arrays of one shape under a new leading dimension,
\* raises ValueError (inhomogeneous shape) otherwise.
NpArray(imgs) ==
    IF imgs = <<>> THEN [raised |-> FALSE, value |-> ArrayValue("ndarray", <<0>>, <<>>)]
    ELSE IF SameShapes(imgs)
    THEN [raised |-> FALSE,
          value |-> ArrayValue("ndarray", <<Len(imgs)>> \o imgs[1].shape, imgs)]
    ELSE [raised |-> TRUE, value |-> NoValue]

\* np.array(images, dtype=object): numpy takes as the result's shape the length
\* of the list followed by the leading dimensions the arrays share.  When they
\* share none, the result is a 1-D object array holding the arrays; when they
\* share some but not all, filling the result raises ValueError ("could not
\* broadcast input array from shape (4,4) into shape (4,)").
NpArrayObject(imgs) ==
    IF imgs = <<>> THEN [raised |-> FALSE, value |-> ArrayValue("object", <<0>>, <<>>)]
    ELSE IF SameShapes(imgs)
    THEN [raised |-> FALSE,
          value |-> ArrayValue("object", <<Len(imgs)>> \o imgs[1].shape, imgs)]
    ELSE IF CommonDims(imgs) = 0
    THEN [raised |-> FALSE, value |-> ArrayValue("object", <<Len(imgs)>>, imgs)]
    ELSE [raised |-> TRUE, value |-> NoValue]

\* The try/except ValueError at the end of extract_images.
Assemble(imgs) ==
    LET first == NpArray(imgs)
        second == NpArrayObject(imgs)
    IN  IF ~first.raised
        THEN [err |-> "none", value |-> first.value, warned |-> FALSE]
        ELSE IF ~second.raised
        THEN [err |-> "none", value |-> second.value, warned |-> TRUE]
        ELSE [err |-> "BroadcastError", value |-> NoValue, warned |-> TRUE]

----------------------------------------------------------------------------
(* Construction *)

Init ==
    /\ tree \in Files
    /\ total_images = 0
    /\ pc = "idle"
    /\ call = NoCall
    /\ stack = <<>>
    /\ count = 0
    /\ images = <<>>
    /\ max_count = 0
    /\ open = 0
    /\ opens = 0
    /\ attempts = 0
    /\ warnings = <<>>
    /\ ret = NoValue
    /\ err = "none"
    /\ full = NoFull

----------------------------------------------------------------------------
(* scan_file *)

\* scan_file is called and tables.open_file succeeds: _recursive_count_arrays
\* starts on f.root with count = 0.
ScanCall ==
    /\ pc = "idle"
    /\ pc' = "scan"
    /\ call' = ScanCallRec
    /\ stack' = <<Frame(tree, <<>>)>>
    /\ count' = 0
    /\ images' = <<>>
    /\ max_count' = 0
    /\ open' = open + 1
    /\ opens' = 1
    /\ attempts' = 0
    /\ warnings' = <<>>
    /\ ret' = NoValue
    /\ err' = "none"
    /\ UNCHANGED <<tree, total_images, full>>

\* scan_file is called and tables.open_file raises: the except branch warns and
\* sets total_images to 0, which scan_file returns.
ScanOpenFail ==
    /\ pc = "idle"
    /\ pc' = "idle"
    /\ call' = ScanCallRec
    /\ stack' = <<>>
    /\ count' = 0
    /\ images' = <<>>
    /\ max_count' = 0
    /\ open' = open
    /\ opens' = 1
    /\ attempts' = 0
    /\ warnings' = <<Warning("scan_error", <<>>)>>
    /\ total_images' = OnScanError(total_images)
    /\ ret' = IntValue(total_images')
    /\ err' = "none"
    /\ UNCHANGED <<tree, full>>

\* One iteration of the for loop of the innermost _recursive_count_arrays call,
\* or its return when its children are exhausted.
ScanStep ==
    /\ pc = "scan"
    /\ LET f == Top(stack) IN
       IF f.i > Len(f.kids)
       THEN \* return count
            IF Len(stack) > 1
            THEN /\ stack' = Pop(stack)
                 /\ UNCHANGED <<pc, count, open, warnings, total_images, ret>>
            ELSE \* the call on f.root returns: the with block is left,
                 \* scan_file caches and returns the count
                 /\ stack' = <<>>
                 /\ open' = WithExit(open, FALSE)
                 /\ total_images' = count
                 /\ ret' = IntValue(count)
                 /\ pc' = "idle"
                 /\ UNCHANGED <<count, warnings>>
       ELSE LET child == f.kids[f.i] IN
            IF child.kind = "Corrupt"
            THEN \* _f_iter_nodes raises: the exception leaves every frame and
                 \* the with block and reaches the except branch of scan_file
                 /\ stack' = <<>>
                 /\ open' = WithExit(open, TRUE)
                 /\ warnings' = Append(warnings, Warning("scan_error", f.path \o <<f.i>>))
                 /\ total_images' = OnScanError(total_images)
                 /\ ret' = IntValue(total_images')
                 /\ pc' = "idle"
                 /\ UNCHANGED count
            ELSE IF IsArray(child)
            THEN /\ count' = IF IsImage(child) THEN count + 1 ELSE count
                 /\ stack' = Advance(stack)
                 /\ UNCHANGED <<pc, open, warnings, total_images, ret>>
            ELSE IF IsGroup(child)
            THEN /\ stack' = Append(Advance(stack), Frame(child.children, f.path \o <<f.i>>))
                 /\ UNCHANGED <<pc, count, open, warnings, total_images, ret>>
            ELSE /\ stack' = Advance(stack)
                 /\ UNCHANGED <<pc, count, open, warnings, total_images, ret>>
    /\ UNCHANGED <<tree, call, images, max_count, opens, attempts, err, full>>

----------------------------------------------------------------------------
(* extract_images *)

\* Arguments a caller passes: n_images omitted (None) or an integer.
Args == {ExtractCallRec(FALSE, 0)}
            \cup {ExtractCallRec(TRUE, n) : n \in (-1) .. (MaxNodes + 1)}

\* extract_images is called and rejects the call before opening the file.
ExtractReject ==
    /\ pc = "idle"
    /\ \E c \in Args :
        /\ ArgCheck(total_images, c.given, c.n) # "ok"
        /\ call' = c
        /\ err' = ArgCheck(total_images, c.given, c.n)
    /\ pc' = "idle"
    /\ stack' = <<>>
    /\ count' = 0
    /\ images' = <<>>
    /\ max_count' = 0
    /\ opens' = 0
    /\ attempts' = 0
    /\ warnings' = <<>>
    /\ ret' = NoValue
    /\ UNCHANGED <<tree, total_images, open, full>>

\* extract_images is called, accepts the call and tables.open_file succeeds:
\* _recursive_extract_arrays starts on f.root.  The check at the head of
\* _recursive_extract_arrays is part of this step.
ExtractCall ==
    /\ pc = "idle"
    /\ \E c \in Args :
        /\ ArgCheck(total_images, c.given, c.n) = "ok"
        /\ call' = c
        /\ max_count' = Resolve(total_images, c.given, c.n)
    /\ pc' = "extract"
    /\ stack' = IF ReachedMax(<<>>, max_count') THEN <<>> ELSE <<Frame(tree, <<>>)>>
    /\ count' = 0
    /\ images' = <<>>
    /\ open' = open + 1
    /\ opens' = 1
    /\ attempts' = 0
    /\ warnings' = <<>>
    /\ ret' = NoValue
    /\ err' = "none"
    /\ UNCHANGED <<tree, total_images, full>>

\* extract_images is called, accepts the call and tables.open_file raises: the
\* exception leaves extract_images.
ExtractOpenFail ==
    /\ pc = "idle"
    /\ \E c \in Args :
        /\ ArgCheck(total_images, c.given, c.n) = "ok"
        /\ call' = c
        /\ max_count' = Resolve(total_images, c.given, c.n)
    /\ pc' = "idle"
    /\ stack' = <<>>
    /\ count' = 0
    /\ images' = <<>>
    /\ open' = open
    /\ opens' = 1
    /\ attempts' = 0
    /\ warnings' = <<>>
    /\ ret' = NoValue
    /\ err' = "OpenError"
    /\ UNCHANGED <<tree, total_images, full>>

\* One iteration of the for loop of the innermost _recursive_extract_arrays
\* call, or its return (children exhausted, or break).  The return of the call
\* on f.root leaves the with block and finishes extract_images.
ExtractStep ==
    /\ pc = "extract"
    /\ LET f == IF stack = <<>> THEN Frame(<<>>, <<>>) ELSE Top(stack)
           exhausted == f.i > Len(f.kids)
           child == f.kids[f.i]
           path == f.path \o <<f.i>>
       IN
       IF (~exhausted) /\ child.kind = "Corrupt"
       THEN \* _f_iter_nodes raises: the exception leaves every frame, the with
            \* block and extract_images
            /\ stack' = <<>>
            /\ open' = WithExit(open, TRUE)
            /\ err' = "NodeError"
            /\ pc' = "idle"
            /\ UNCHANGED <<images, attempts, warnings, ret, full>>
       ELSE IF exhausted \/ ReachedMax(images, max_count)
       THEN \* the loop ends or breaks: the call returns
            IF Len(stack) > 1
            THEN /\ stack' = Pop(stack)
                 /\ UNCHANGED <<pc, images, attempts, open, warnings, ret, err, full>>
            ELSE LET a == Assemble(images) IN
                 /\ stack' = <<>>
                 /\ open' = WithExit(open, FALSE)
                 /\ full' = IF max_count = total_images
                            THEN [set |-> TRUE, elems |-> images]
                            ELSE full
                 /\ warnings' = IF a.warned
                                THEN Append(warnings, Warning("shape_mismatch", <<>>))
                                ELSE warnings
                 /\ ret' = a.value
                 /\ err' = a.err
                 /\ pc' = "idle"
                 /\ UNCHANGED <<images, attempts>>
       ELSE IF IsArray(child)
       THEN IF IsImage(child)
            THEN /\ attempts' = attempts + 1
                 /\ images' = TryRead(images, child, path)
                 /\ warnings' = IF child.readable
                                THEN warnings
                                ELSE Append(warnings, Warning("read_error", path))
                 /\ stack' = Advance(stack)
                 /\ UNCHANGED <<pc, open, ret, err, full>>
            ELSE /\ stack' = Advance(stack)
                 /\ UNCHANGED <<pc, images, attempts, open, warnings, ret, err, full>>
       ELSE IF IsGroup(child)
       THEN /\ stack' = IF ReachedMax(images, max_count)
                        THEN Advance(stack)
                        ELSE Append(Advance(stack), Frame(child.children, path))
            /\ UNCHANGED <<pc, images, attempts, open, warnings, ret, err, full>>
       ELSE /\ stack' = Advance(stack)
            /\ UNCHANGED <<pc, images, attempts, open, warnings, ret, err, full>>
    /\ UNCHANGED <<tree, total_images, call, count, max_count, opens>>

----------------------------------------------------------------------------
(* get_summary *)

GetSummary ==
    /\ pc = "idle"
    /\ pc' = "idle"
    /\ call' = SummaryCallRec
    /\ stack' = <<>>
    /\ count' = 0
    /\ images' = <<>>
    /\ max_count' = 0
    /\ opens' = 0
    /\ attempts' = 0
    /\ warnings' = <<>>
    /\ ret' = SummaryValue(total_images)
    /\ err' = "none"
    /\ UNCHANGED <<tree, total_images, open, full>>

----------------------------------------------------------------------------

Next ==
    \/ ScanCall
    \/ ScanOpenFail
    \/ ScanStep
    \/ ExtractReject
    \/ ExtractCall
    \/ ExtractOpenFail
    \/ ExtractStep
    \/ GetSummary

Spec == Init /\ [][Next]_vars

----------------------------------------------------------------------------
(* Reference definitions used to state the properties *)

RECURSIVE Walk(_, _, _)
\* The nodes below a group in depth-first child-iteration order, each with its
\* path, starting at child i of kids.
Walk(kids, path, i) ==
    IF i > Len(kids) THEN <<>>
    ELSE <<[node |-> kids[i], path |-> path \o <<i>>]>>
            \o (IF kids[i].kind = "Group"
                THEN Walk(kids[i].children, path \o <<i>>, 1)
                ELSE <<>>)
            \o Walk(kids, path, i + 1)

AllNodes == Walk(tree, <<>>, 1)

Qualifies(e) == e.node.kind = "Array" /\ Len(e.node.shape) >= 2

\* The arrays of rank >= 2 of the file, in depth-first order.
Candidates == SelectSeq(AllNodes, Qualifies)

K == Len(Candidates)

IsReadable(e) == e.node.readable

RECURSIVE AsImages(_)
AsImages(es) ==
    IF es = <<>> THEN <<>>
    ELSE <<[shape |-> es[1].node.shape, data |-> es[1].path]>> \o AsImages(Tail(es))

\* What reading every readable candidate yields, in depth-first order.
ReadableImages == AsImages(SelectSeq(Candidates, IsReadable))

HasCorrupt == \E i \in 1 .. Len(AllNodes) : AllNodes[i].node.kind = "Corrupt"

AllReadable == \A i \in 1 .. K : Candidates[i].node.readable

Nested == \E i \in 1 .. K : Len(Candidates[i].path) >= 2

Min(a, b) == IF a < b THEN a ELSE b

ScanDone == pc = "idle" /\ call.op = "scan"

\* scan_file ended through its except branch.
ScanFailed == ScanDone /\ warnings # <<>>

ExtractDone == pc = "idle" /\ call.op = "extract"

\* extract_images opened the file and the walk returned (line 133 was reached).
ExtractWalked == ExtractDone /\ opens = 1 /\ err \in {"none", "BroadcastError"}

ReadWarnings == SelectSeq(warnings, LAMBDA w : w.kind = "read_error")

ShapeWarned == \E i \in 1 .. Len(warnings) : warnings[i].kind = "shape_mismatch"

----------------------------------------------------------------------------
(* Properties *)

\* C1: on a file whose nodes are groups, arrays and other leaves, with K arrays
\* of rank >= 2 at any depth, a scan that opens the file returns K and caches K
\* in total_images; arrays of rank 0 or 1 and other leaves are not counted.
C1_ScanCountsImages ==
    (ScanDone /\ ~HasCorrupt /\ ~ScanFailed)
        => /\ ret = IntValue(K)
           /\ total_images = K

C1_Witness ==
    /\ ScanDone /\ ~ScanFailed
    /\ ret = IntValue(K)
    /\ K >= 1
    /\ Nested
    /\ \E i \in 1 .. Len(AllNodes) :
          AllNodes[i].node.kind = "Array" /\ Len(AllNodes[i].node.shape) < 2

C3_Original ==
    (ExtractDone /\ call.given)
        => /\ call.n = 0 => (err = "InvalidArgument" /\ opens = 0 /\ attempts = 0)
           /\ call.n = total_images + 1
                => (err = "OutOfRange" /\ opens = 0 /\ attempts = 0)

\* C3 amended: the same, on an extractor whose cached total is positive.
C3_ArgumentErrors ==
    (ExtractDone /\ call.given /\ total_images > 0)
        => /\ call.n = 0 => (err = "InvalidArgument" /\ opens = 0 /\ attempts = 0)
           /\ call.n = total_images + 1
                => (err = "OutOfRange" /\ opens = 0 /\ attempts = 0)

C3_Witness ==
    /\ ExtractDone /\ call.given /\ call.n = 0
    /\ total_images > 0
    /\ err = "InvalidArgument"
    /\ opens = 0

\* C4: extract_images with any argument on an extractor whose cached total is 0
\* fails with InvalidState and opens and reads nothing.
C4_InvalidState ==
    (ExtractDone /\ total_images = 0)
        => /\ err = "InvalidState"
           /\ opens = 0
           /\ attempts = 0
           /\ images = <<>>
           /\ ret = NoValue

C4_Witness ==
    /\ ExtractDone /\ total_images = 0
    /\ ~call.given
    /\ err = "InvalidState"
    /\ K >= 1

C6_Claim ==
    (ExtractWalked /\ images # <<>>)
        => IF SameShapes(images)
           THEN /\ err = "none"
                /\ ret.shape = <<Len(images)>> \o images[1].shape
                /\ ret.elems = images
           ELSE /\ err = "none"
                /\ ret.kind = "object"
                /\ ret.shape = <<Len(images)>>
                /\ ret.elems = images
                /\ ShapeWarned

\* C7 as stated: a node that cannot be enumerated does not abort the scan: the
\* qualifying arrays that can be reached are still counted.
C7_Claim ==
    (ScanDone /\ HasCorrupt /\ opens = 1 /\ open = 0
        /\ ScanFailed /\ warnings[1].path # <<>>)
        => /\ ret = IntValue(K)
           /\ total_images = K

\* C8: a scan whose open or walk fails does not raise: it warns once, sets
\* total_images to 0 and returns 0.
C8_ScanFailureResets ==
    ScanFailed
        => /\ err = "none"
           /\ total_images = 0
           /\ ret = IntValue(0)
           /\ Len(warnings) = 1
           /\ warnings[1].kind = "scan_error"

C8_Witness ==
    /\ ScanFailed
    /\ full.set
    /\ total_images = 0
    /\ K >= 1

\* C9: whenever control is with the caller no file handle is open, and a call
\* opens the file at most once and holds at most one handle.
C9_NoHandleLeak ==
    /\ pc = "idle" => open = 0
    /\ opens <= 1
    /\ open <= 1

C9_Witness ==
    /\ ScanDone
    /\ ScanFailed
    /\ warnings[1].path # <<>>
    /\ opens = 1
    /\ open = 0

\* C10: an extraction never holds more than max_count arrays, and once it holds
\* max_count no further read is attempted before it returns.
C10_EarlyStop ==
    /\ [](pc = "extract" => Len(images) <= max_count)
    /\ [][(pc = "extract" /\ Len(images) >= max_count)
            => (attempts' = attempts /\ images' = images)]_vars

C10_Witness ==
    /\ pc = "extract"
    /\ Len(images) = max_count
    /\ Len(stack) >= 2
    /\ max_count < K
    /\ Top(stack).i <= Len(Top(stack).kids)

====
